---- MODULE Spec2Model ----
(***************************************************************************)
(* A model of the abkve vector index (src/src/lib.rs): the flat store      *)
(* (dim, data, ids), add with L2 normalisation, the three searches, the    *)
(* bincode snapshot codec and the reader-writer lock around the store.     *)
(*                                                                         *)
(* f32 values are modelled bit-exactly.  A float is the triple             *)
(* <<s, e, f>> of its IEEE-754 binary32 fields: sign, biased exponent      *)
(* (0..255) and fraction (0..2^23-1).  Arithmetic rounds to nearest, ties  *)
(* to even, as Rust's f32 operators do (Rust never fuses a*b+c).  Rust     *)
(* leaves the sign and payload of a NaN result unspecified.  On x86-64 an  *)
(* invalid operation gives the sign-set default NaN and an operation with  *)
(* one NaN operand that operand, quieted.  With two NaN operands the build *)
(* returns either, depending on the order the compiler gave them: such a   *)
(* result is the value EitherNaN(c), standing for any one NaN of the set   *)
(* c.  The code only compares these results (a NaN is never greater), so   *)
(* none reaches the store or a returned score.                             *)
(***************************************************************************)
EXTENDS Integers, Sequences, FiniteSets, TLC

\* ------------------------------------------------------------------ f32

F32(s, e, f) == <<s, e, f>>

Sgn(x) == x[1]
Exp(x) == x[2]
Frac(x) == x[3]

PosZero == F32(0, 0, 0)
NegZero == F32(1, 0, 0)
PosInf == F32(0, 255, 0)
NegInf == F32(1, 255, 0)
\* f32::NAN (0x7fc00000).
QNaN == F32(0, 255, 4194304)
\* The NaN an invalid operation produces (0xffc00000).
DefaultNaN == F32(1, 255, 4194304)
FOne == F32(0, 127, 0)

IsNaN(x) == Exp(x) = 255 /\ Frac(x) # 0
IsInf(x) == Exp(x) = 255 /\ Frac(x) = 0
IsZero(x) == Exp(x) = 0 /\ Frac(x) = 0
FInf(s) == F32(s, 255, 0)

\* The NaN x with its quiet bit set.
Quiet(x) == F32(Sgn(x), 255, IF Frac(x) < 4194304 THEN Frac(x) + 4194304 ELSE Frac(x))

\* A NaN that is any one of the quiet NaNs of the set c (two or more): the
\* sign field 2 marks it, the fields 255 and 1 make it a NaN.
EitherNaN(c) == <<2, 255, 1, c>>

\* The quiet NaNs the NaN x may be after an operation.
QuietNaNs(x) == IF Sgn(x) = 2 THEN x[4] ELSE {Quiet(x)}

\* The NaN that is one of the set c.
OneNaNOf(c) == IF Cardinality(c) = 1 THEN CHOOSE v \in c : TRUE ELSE EitherNaN(c)

\* The result of an operation on x and y of which at least one is a NaN:
\* the NaN operand, quieted; with two NaN operands, either of them.
PropagateNaN(x, y) ==
    IF ~IsNaN(y) THEN OneNaNOf(QuietNaNs(x))
    ELSE IF ~IsNaN(x) THEN OneNaNOf(QuietNaNs(y))
    ELSE OneNaNOf(QuietNaNs(x) \cup QuietNaNs(y))
FZero(s) == F32(s, 0, 0)

\* Number of bits of the natural number n (n < 2^31).
RECURSIVE BitLen(_)
BitLen(n) == IF n = 0 THEN 0 ELSE 1 + BitLen(n \div 2)

\* The significand and exponent of a finite nonzero float, the significand
\* normalised into [2^23, 2^24): value = Mant * 2^Ex.
Mant(x) ==
    IF Exp(x) = 0 THEN Frac(x) * 2^(24 - BitLen(Frac(x))) ELSE 8388608 + Frac(x)

Ex(x) ==
    IF Exp(x) = 0 THEN -149 - (24 - BitLen(Frac(x))) ELSE Exp(x) - 150

\* The fields of the float with significand m (below 2^24) and exponent e.
Pack(s, m, e) ==
    IF m = 0 THEN FZero(s)
    ELSE IF m < 8388608 THEN F32(s, 0, m)
    ELSE IF e + 150 >= 255 THEN FInf(s)
    ELSE F32(s, e + 150, m - 8388608)

\* A significand that rounded up to 2^24 moves to the next exponent.
PackCarry(s, m, e) ==
    IF m = 16777216 THEN Pack(s, 8388608, e + 1) ELSE Pack(s, m, e)

\* Round to nearest, ties to even: q is the kept part, r the dropped part,
\* half the weight of the first dropped bit.
RoundHalfEven(s, q, r, half, e) ==
    PackCarry(s, IF r > half \/ (r = half /\ q % 2 = 1) THEN q + 1 ELSE q, e)

\* Drop the k lowest bits of m (k <= 0: append -k zero bits).
RoundDrop(s, m, ex, k) ==
    IF k <= 0 THEN Pack(s, m * 2^(-k), ex + k)
    ELSE IF k > 30 THEN FZero(s)
    ELSE RoundHalfEven(s, m \div 2^k, m % 2^k, 2^(k - 1), ex + k)

\* The number of bits to drop from an nb-bit significand with exponent ex:
\* down to 24 bits, and more where the result is subnormal.
DropBits(nb, ex) == IF nb - 24 > -149 - ex THEN nb - 24 ELSE -149 - ex

\* Round m * 2^ex (m < 2^31, its lowest bit standing for all lower bits of the
\* exact result) to the nearest float, ties to even, with gradual underflow
\* and overflow to infinity.
RoundPack(s, m, ex) ==
    IF m = 0 THEN FZero(s) ELSE RoundDrop(s, m, ex, DropBits(BitLen(m), ex))

\* q with its lowest bit set when the bits r below it are not all zero.
Jam(q, r) == IF r # 0 /\ q % 2 = 0 THEN q + 1 ELSE q

\* The 48-bit product of two 24-bit significands, from 12-bit halves.
MulHiLo(s, h0, t, e) ==
    RoundPack(s, Jam((h0 + t \div 16777216) * 64 + (t % 16777216) \div 262144,
                     t % 262144), e)

MulSum(s, hh, mid, ll, e) ==
    MulHiLo(s, hh + mid \div 4096, (mid % 4096) * 4096 + ll, e)

MulParts(s, aH, aL, bH, bL, e) ==
    MulSum(s, aH * bH, aH * bL + aL * bH, aL * bL, e)

MulMant(s, a, b, e) ==
    MulParts(s, a \div 4096, a % 4096, b \div 4096, b % 4096, e)

\* x * y in f32.
FMul(x, y) ==
    IF IsNaN(x) \/ IsNaN(y) THEN PropagateNaN(x, y)
    ELSE IF IsInf(x) \/ IsInf(y)
         THEN IF IsZero(x) \/ IsZero(y) THEN DefaultNaN
              ELSE FInf((Sgn(x) + Sgn(y)) % 2)
    ELSE IF IsZero(x) \/ IsZero(y) THEN FZero((Sgn(x) + Sgn(y)) % 2)
    ELSE MulMant((Sgn(x) + Sgn(y)) % 2, Mant(x), Mant(y), Ex(x) + Ex(y) + 18)

\* a +/- b on significands carrying three extra bits.
AddSigned(sp, sq, a, b, e) ==
    IF sp = sq THEN RoundPack(sp, a + b, e)
    ELSE IF a = b THEN PosZero
    ELSE RoundPack(sp, a - b, e)

\* The smaller operand shifted right by the exponent difference d.
AddAligned(sp, sq, a, b0, d, e) ==
    AddSigned(sp, sq, a, IF d > 30 THEN 1 ELSE Jam(b0 \div 2^d, b0 % 2^d), e)

\* p + q for finite nonzero p, q with |p| >= |q|.
AddOrdered(p, q) ==
    AddAligned(Sgn(p), Sgn(q), Mant(p) * 8, Mant(q) * 8, Ex(p) - Ex(q), Ex(p) - 3)

\* |x| >= |y|
MagGe(x, y) == Exp(x) > Exp(y) \/ (Exp(x) = Exp(y) /\ Frac(x) >= Frac(y))

\* x + y in f32.
FAdd(x, y) ==
    IF IsNaN(x) \/ IsNaN(y) THEN PropagateNaN(x, y)
    ELSE IF IsInf(x)
         THEN IF IsInf(y) /\ Sgn(x) # Sgn(y) THEN DefaultNaN ELSE x
    ELSE IF IsInf(y) THEN y
    ELSE IF IsZero(x) /\ IsZero(y)
         THEN IF Sgn(x) = 1 /\ Sgn(y) = 1 THEN NegZero ELSE PosZero
    ELSE IF IsZero(x) THEN y
    ELSE IF IsZero(y) THEN x
    ELSE IF MagGe(x, y) THEN AddOrdered(x, y)
    ELSE AddOrdered(y, x)

\* The quotient bits of the restoring division: <<quotient, remainder>> after
\* n more bits, the divisor being b.
RECURSIVE DivBits(_, _, _, _)
DivBits(r, b, n, acc) ==
    IF n = 0 THEN <<acc, r>>
    ELSE IF 2 * r >= b THEN DivBits(2 * r - b, b, n - 1, 2 * acc + 1)
    ELSE DivBits(2 * r, b, n - 1, 2 * acc)

\* Round <<digits, remainder>>: a remainder makes the result inexact.
JamPack(s, qr, e) == RoundPack(s, Jam(2 * qr[1], qr[2]), e)

\* x / y in f32.
FDiv(x, y) ==
    IF IsNaN(x) \/ IsNaN(y) THEN PropagateNaN(x, y)
    ELSE IF IsInf(x)
         THEN IF IsInf(y) THEN DefaultNaN ELSE FInf((Sgn(x) + Sgn(y)) % 2)
    ELSE IF IsInf(y) THEN FZero((Sgn(x) + Sgn(y)) % 2)
    ELSE IF IsZero(y)
         THEN IF IsZero(x) THEN DefaultNaN ELSE FInf((Sgn(x) + Sgn(y)) % 2)
    ELSE IF IsZero(x) THEN FZero((Sgn(x) + Sgn(y)) % 2)
    ELSE JamPack((Sgn(x) + Sgn(y)) % 2,
                 DivBits(Mant(x) % Mant(y), Mant(y), 26, Mant(x) \div Mant(y)),
                 Ex(x) - Ex(y) - 27)

\* The integer square root, two radicand bits per step: <<root, remainder>>.
\* The radicand is rad * 4^14; n counts the bit pairs still to take.
RECURSIVE SqrtBits(_, _, _, _)
SqrtBits(rad, n, r, root) ==
    IF n = 0 THEN <<root, r>>
    ELSE IF 4 * r + (IF n > 14 THEN (rad \div 4^(n - 15)) % 4 ELSE 0) >= 4 * root + 1
    THEN SqrtBits(rad, n - 1,
                  4 * r + (IF n > 14 THEN (rad \div 4^(n - 15)) % 4 ELSE 0)
                    - (4 * root + 1),
                  2 * root + 1)
    ELSE SqrtBits(rad, n - 1,
                  4 * r + (IF n > 14 THEN (rad \div 4^(n - 15)) % 4 ELSE 0),
                  2 * root)

\* x.sqrt() in f32.
FSqrt(x) ==
    IF IsNaN(x) THEN OneNaNOf(QuietNaNs(x))
    ELSE IF IsZero(x) THEN x
    ELSE IF Sgn(x) = 1 THEN DefaultNaN
    ELSE IF IsInf(x) THEN x
    ELSE IF Ex(x) % 2 = 1
         THEN JamPack(0, SqrtBits(2 * Mant(x), 27, 0, 0), (Ex(x) - 1) \div 2 - 15)
    ELSE JamPack(0, SqrtBits(Mant(x), 27, 0, 0), Ex(x) \div 2 - 15)

\* x > y on f32 (false when either is NaN; -0.0 and 0.0 are equal).
FGt(x, y) ==
    IF IsNaN(x) \/ IsNaN(y) THEN FALSE
    ELSE IF IsZero(x) /\ IsZero(y) THEN FALSE
    ELSE IF Sgn(x) # Sgn(y) THEN Sgn(x) = 0
    ELSE IF Sgn(x) = 0 THEN ~MagGe(y, x)
    ELSE ~MagGe(x, y)

\* x == y on f32.
FEq(x, y) ==
    /\ ~IsNaN(x)
    /\ ~IsNaN(y)
    /\ \/ x = y
       \/ IsZero(x) /\ IsZero(y)

\* x <= y on f32.
FLe(x, y) == ~IsNaN(x) /\ ~IsNaN(y) /\ ~FGt(x, y)

\* ------------------------------------------------------------------ u64

\* A u64 is the tuple of its four 16-bit limbs, least significant first, so
\* that every id of the 64-bit range has a value.  U64(n) is the u64 of the
\* number n < 2^31, Small(u) the number of a u64 below 2^31.
U64(n) == <<n % 65536, n \div 65536, 0, 0>>
IsSmall(u) == u[3] = 0 /\ u[4] = 0 /\ u[2] < 32768
Small(u) == u[1] + 65536 * u[2]

\* ------------------------------------------------------- math primitives

\* acc + s[i] + s[i+1] + ...: a left fold.  Iterator::sum::<f32>() folds
\* from -0.0, the identity of f32 addition.
RECURSIVE SumFrom(_, _, _)
SumFrom(s, i, acc) ==
    IF i > Len(s) THEN acc ELSE SumFrom(s, i + 1, FAdd(acc, s[i]))

l2_norm(v) == FSqrt(SumFrom([i \in 1..Len(v) |-> FMul(v[i], v[i])], 1, NegZero))

\* The literal 1e-10 as an f32 (0x2edbe6ff).
Epsilon == F32(0, 93, 6022911)

\* if norm > 1e-10 { 1.0 / norm } else { 1.0 }
InvNorm(norm) == IF FGt(norm, Epsilon) THEN FDiv(FOne, norm) ELSE FOne

normalize_vec(v) ==
    LET inv == InvNorm(l2_norm(v))
    IN  [i \in 1..Len(v) |-> FMul(v[i], inv)]

\* The eight accumulators after the full chunks i .. chunks-1.
RECURSIVE UnrolledLoop(_, _, _, _, _)
UnrolledLoop(a, b, i, chunks, acc) ==
    IF i >= chunks THEN acc
    ELSE UnrolledLoop(a, b, i + 1, chunks,
            [k \in 1..8 |-> FAdd(acc[k], FMul(a[8 * i + k], b[8 * i + k]))])

\* The remainder loop, from the 1-based position i to the end of a.
RECURSIVE RemainderLoop(_, _, _, _)
RemainderLoop(a, b, i, result) ==
    IF i > Len(a) THEN result
    ELSE RemainderLoop(a, b, i + 1, FAdd(result, FMul(a[i], b[i])))

\* The horizontal reduction acc0 + acc1 + ... + acc7.
HorizontalSum(acc) == SumFrom(acc, 2, acc[1])

\* The kernel without its remainder loop: the full chunks only.
dot_product_chunks_only(a, b) ==
    HorizontalSum(UnrolledLoop(a, b, 0, Len(a) \div 8, [k \in 1..8 |-> PosZero]))

\* The unrolled loop over the full chunks, the horizontal reduction, then the
\* remainder loop.
dot_product_unrolled(a, b) ==
    RemainderLoop(a, b, (Len(a) \div 8) * 8 + 1,
        HorizontalSum(UnrolledLoop(a, b, 0, Len(a) \div 8, [k \in 1..8 |-> PosZero])))

\* ------------------------------------------------------------ AbkveInner

None == <<>>
Some(x) == <<x>>

\* The store as a value: the three fields of AbkveInner, dim a u64 (usize is
\* 64 bits wide on the target), so that a loaded store has the dim its image
\* holds.
Inner(d, dt, is) == [dim |-> d, data |-> dt, ids |-> is]

\* self.dim as a number: the n with U64(n) = self.dim.  Only the functions
\* that have asserted a slice's length equal to self.dim compute with it
\* (add and the three searches), and a slice here is shorter than 2^31; a
\* wider dim has no number, and is never given a smaller one.
Dim(st) == CHOOSE n \in {Small(st.dim)} : U64(n) = st.dim

\* new(dim, capacity): both vectors empty.
NewInner(d) == Inner(U64(d), <<>>, <<>>)

\* AbkveInner::len: the number of ids.
len(st) == Len(st.ids)

\* is_empty answering FALSE whatever the store holds.
is_emptyNever(st) == FALSE

\* Abkve::is_empty: self.len() == 0.
is_empty(st) == len(st) = 0

\* Row i (0-based) of the flat buffer: data[i*dim .. (i+1)*dim].
Row(st, i) == SubSeq(st.data, i * Dim(st) + 1, (i + 1) * Dim(st))

\* AddInner refusing an id the store already holds.
AddInnerDedup(st, id, vector) ==
    IF \E i \in 1..Len(st.ids) : st.ids[i] = id THEN st
    ELSE Inner(st.dim,
               st.data \o [i \in 1..Len(vector) |->
                              FMul(vector[i], InvNorm(l2_norm(vector)))],
               Append(st.ids, id))

\* AddInner putting the new row in front of the rows already stored.
AddInnerFront(st, id, vector) ==
    Inner(st.dim,
          [i \in 1..Len(vector) |-> FMul(vector[i], InvNorm(l2_norm(vector)))] \o st.data,
          <<id>> \o st.ids)

\* add: the normalised components appended to data, the id to ids.
AddInner(st, id, vector) ==
    LET inv_norm == InvNorm(l2_norm(vector))
    IN  Inner(st.dim,
              st.data \o [i \in 1..Len(vector) |-> FMul(vector[i], inv_norm)],
              Append(st.ids, id))

Max(a, b) == IF a > b THEN a ELSE b

\* The capacity of a Vec of length elements after one push: unchanged while the
\* element fits, else doubled (at least length + 1, at least 4).
GrowCap(cap, length) == IF length + 1 <= cap THEN cap ELSE Max(4, Max(2 * cap, length + 1))

\* The capacity after n pushes.
RECURSIVE PushCap(_, _, _)
PushCap(cap, length, n) ==
    IF n = 0 THEN cap ELSE PushCap(GrowCap(cap, length), length + 1, n - 1)

\* Better with >= for >: a row that only equals the best so far replaces it.
BetterOrEqual(best, i, score) ==
    IF ~FGt(best[2], score) THEN <<Some(i), score>> ELSE best

\* if score > best_score { best_score = score; best_idx = Some(i); }
\* on best = <<best_idx, best_score>>.
Better(best, i, score) == IF FGt(score, best[2]) THEN <<Some(i), score>> ELSE best

\* The scan of search from row i (0-based): <<best_idx, best_score>>.
RECURSIVE SearchLoop(_, _, _, _)
SearchLoop(st, norm_query, i, best) ==
    IF i >= Len(st.ids) THEN best
    ELSE SearchLoop(st, norm_query, i + 1,
            Better(best, i, dot_product_unrolled(norm_query, Row(st, i))))

\* best_idx.map(|i| (self.ids[i], best_score))
MapBest(st, best) ==
    IF best[1] = None THEN None ELSE Some(<<st.ids[best[1][1] + 1], best[2]>>)

search(st, q, t) ==
    IF Len(st.ids) = 0 THEN None
    ELSE MapBest(st, SearchLoop(st, normalize_vec(q), 0, <<None, t>>))

\* usize::MAX, the index of the reduction's identity.
UsizeMax == -1

\* par_chunks(dim): the rows, the last one shorter when dim does not divide
\* the length of data.
ParChunks(st) ==
    LET n == (Len(st.data) + Dim(st) - 1) \div Dim(st)
    IN  [i \in 1..n |->
            SubSeq(st.data, (i - 1) * Dim(st) + 1,
                   IF i * Dim(st) < Len(st.data) THEN i * Dim(st) ELSE Len(st.data))]

\* .enumerate().map(|(i, row)| (i, score))
ParScored(st, norm_query) ==
    LET rows == ParChunks(st)
    IN  [i \in 1..Len(rows) |-> <<i - 1, dot_product_unrolled(norm_query, rows[i])>>]

ReduceIdentity == <<UsizeMax, NegInf>>

\* The reducer: |(ai, as_), (bi, bs)| if bs > as_ { (bi, bs) } else { (ai, as_) }
ReduceOp(a, b) == IF FGt(b[2], a[2]) THEN b ELSE a

\* One worker folding the items lo..hi into acc, in order.
RECURSIVE FoldPiece(_, _, _, _)
FoldPiece(items, lo, hi, acc) ==
    IF lo > hi THEN acc
    ELSE FoldPiece(items, lo + 1, hi, ReduceOp(acc, items[lo]))

\* Every value the order-preserving parallel reduction of items lo..hi can
\* have: the range is folded by one worker from the identity, or split in
\* two at any point and the two halves' results combined, left before right.
RECURSIVE ReduceResults(_, _, _)
ReduceResults(items, lo, hi) ==
    {FoldPiece(items, lo, hi, ReduceIdentity)}
    \cup UNION {{ReduceOp(l, r) : l \in ReduceResults(items, lo, k),
                                  r \in ReduceResults(items, k + 1, hi)} :
                k \in lo..(hi - 1)}

\* What search_parallel returns when the reduction ended with best.
ParallelResult(st, t, best) ==
    IF best[1] = UsizeMax \/ FLe(best[2], t) THEN None
    ELSE Some(<<st.ids[best[1] + 1], best[2]>>)

\* Every value the reduction over all the items can have.
ReduceAll(items) == ReduceResults(items, 1, Len(items))

\* Every result search_parallel can return.
search_parallel(st, q, t) ==
    IF Len(st.ids) = 0 THEN {None}
    ELSE {ParallelResult(st, t, best) :
            best \in ReduceAll(ParScored(st, normalize_vec(q)))}

\* norm_query.iter().zip(row.iter()).map(|(a, b)| a * b).sum()
NaiveScore(norm_query, row) ==
    LET n == IF Len(row) < Len(norm_query) THEN Len(row) ELSE Len(norm_query)
    IN  SumFrom([k \in 1..n |-> FMul(norm_query[k], row[k])], 1, NegZero)

\* chunks_exact(dim).enumerate().map(..).filter(|(_, score)| *score > threshold)
NaiveFiltered(st, norm_query, t) ==
    LET n == Len(st.data) \div Dim(st)
        scored == [i \in 1..n |-> <<i - 1, NaiveScore(norm_query, Row(st, i - 1))>>]
    IN  SelectSeq(scored, LAMBDA it : FGt(it[2], t))

\* Iterator::max_by: the accumulated element is kept only when it compares
\* Greater, so the last of several equal maxima is returned.
RECURSIVE MaxBy(_, _, _)
MaxBy(items, i, best) ==
    IF i > Len(items) THEN best
    ELSE IF best = None THEN MaxBy(items, i + 1, Some(items[i]))
    ELSE IF FGt(best[1][2], items[i][2]) THEN MaxBy(items, i + 1, best)
    ELSE MaxBy(items, i + 1, Some(items[i]))

\* .map(|(i, score)| (self.ids[i], score))
MapMax(st, m) ==
    IF m = None THEN None ELSE Some(<<st.ids[m[1][1] + 1], m[1][2]>>)

search_naive(st, q, t) ==
    MapMax(st, MaxBy(NaiveFiltered(st, normalize_vec(q), t), 1, None))

\* -------------------------------------------------- snapshot codec (bincode)

\* The concatenation of a sequence of byte strings.
RECURSIVE Concat(_)
Concat(ss) == IF ss = <<>> THEN <<>> ELSE Head(ss) \o Concat(Tail(ss))

\* A u64 (and a usize, 64 bits wide on the target) as 8 little-endian bytes.
EncU64(u) ==
    <<u[1] % 256, u[1] \div 256, u[2] % 256, u[2] \div 256,
      u[3] % 256, u[3] \div 256, u[4] % 256, u[4] \div 256>>

\* 8 little-endian bytes as a u64.
DecU64(b) ==
    <<b[1] + 256 * b[2], b[3] + 256 * b[4], b[5] + 256 * b[6], b[7] + 256 * b[8]>>

\* A length read from an image is larger than n (n < 2^31).
LenExceeds(u, n) == IF IsSmall(u) THEN Small(u) > n ELSE TRUE

\* EncF32 writing the four bytes in big-endian order.
EncF32BigEndian(x) ==
    <<Sgn(x) * 128 + Exp(x) \div 2,
      (Exp(x) % 2) * 128 + Frac(x) \div 65536,
      (Frac(x) \div 256) % 256,
      Frac(x) % 256>>

\* An f32 as the 4 little-endian bytes of its bit pattern.
EncF32(x) ==
    <<Frac(x) % 256,
      (Frac(x) \div 256) % 256,
      (Exp(x) % 2) * 128 + Frac(x) \div 65536,
      Sgn(x) * 128 + Exp(x) \div 2>>

DecF32(b) ==
    F32(b[4] \div 128,
        (b[4] % 128) * 2 + b[3] \div 128,
        (b[3] % 128) * 65536 + b[2] * 256 + b[1])

\* Serialize writing ids before data.
SerializeIdsFirst(st) ==
    EncU64(st.dim)
    \o EncU64(U64(Len(st.ids)))
    \o Concat([i \in 1..Len(st.ids) |-> EncU64(st.ids[i])])
    \o EncU64(U64(Len(st.data)))
    \o Concat([i \in 1..Len(st.data) |-> EncF32(st.data[i])])

\* bincode::serialize_into(writer, &*inner): the fields of AbkveInner in the
\* order the struct declares them (dim, data, ids), each Vec as its length
\* followed by its elements.
Serialize(st) ==
    EncU64(st.dim)
    \o EncU64(U64(Len(st.data)))
    \o Concat([i \in 1..Len(st.data) |-> EncF32(st.data[i])])
    \o EncU64(U64(Len(st.ids)))
    \o Concat([i \in 1..Len(st.ids) |-> EncU64(st.ids[i])])

Err == [ok |-> FALSE]
Ok(st) == [ok |-> TRUE, inner |-> st]

\* The call panicked: no store is produced.
Aborted == [ok |-> FALSE, aborted |-> TRUE]

\* The sum of the byte products a[i] * b[k + 1 - i], i from position i on:
\* column k of the long multiplication of two u64 given as their 8 bytes.
RECURSIVE Column(_, _, _, _)
Column(a, b, k, i) ==
    IF i > 8 THEN 0
    ELSE (IF k + 1 - i \in 1..8 THEN a[i] * b[k + 1 - i] ELSE 0)
         + Column(a, b, k, i + 1)

\* The bytes, least significant first, of the number whose columns k.. are
\* cols, carry added to the first of them.
RECURSIVE Carried(_, _, _)
Carried(cols, k, carry) ==
    IF k > Len(cols) THEN <<>>
    ELSE <<(cols[k] + carry) % 256>>
         \o Carried(cols, k + 1, (cols[k] + carry) \div 256)

\* a * b for two usize, unreduced: the 16 bytes of the product.
Product(a, b) ==
    Carried([k \in 1..16 |-> Column(EncU64(a), EncU64(b), k, 1)], 1, 0)

\* The product does not fit a usize.
Overflows(p) == \E k \in 9..16 : p[k] # 0

\* The product reduced modulo 2^64.
Wrapped(p) == DecU64(SubSeq(p, 1, 8))

\* Vec::<T>::with_capacity(n) panics with "capacity overflow": n elements of
\* size bytes take more than isize::MAX bytes.
CapacityOverflow(n, size) ==
    LET p == Product(n, U64(size))
    IN  IF Overflows(p) THEN TRUE ELSE p[8] >= 128

\* new without its assertion and without its allocations.
NewUnchecked(d, capacity) == {Ok(Inner(d, <<>>, <<>>))}

\* Abkve::new(dim, capacity), dim and capacity usize: assert!(dim > 0), then
\* Vec::with_capacity(dim * capacity) of f32 and Vec::with_capacity(capacity)
\* of u64, then the empty store.  Every outcome a build and its allocator
\* can produce: where dim * capacity does not fit a usize, a build with
\* overflow checks panics and a build without them allocates for the wrapped
\* product; an allocation within isize::MAX bytes succeeds or, refused by
\* the allocator, aborts the process; capacity 0 allocates nothing.
New(d, capacity) ==
    IF d = U64(0) THEN {Aborted}
    ELSE LET p == Product(d, capacity)
             allocated ==
                 IF CapacityOverflow(Wrapped(p), 4) THEN {Aborted}
                 ELSE IF CapacityOverflow(capacity, 8) THEN {Aborted}
                 ELSE IF capacity = U64(0) THEN {Ok(Inner(d, <<>>, <<>>))}
                 ELSE {Ok(Inner(d, <<>>, <<>>)), Aborted}
         IN  IF Overflows(p) THEN {Aborted} \cup allocated ELSE allocated

\* The elements that fit in avail bytes when length were announced.
Fit(length, avail, size) ==
    IF LenExceeds(length, avail \div size) THEN avail \div size ELSE Small(length)

\* Deserialize stopping at the end of the input instead of failing: a Vec
\* holds the elements that were there.
DeserializeLenient(src) ==
    IF Len(src) < 16 THEN Err
    ELSE IF Len(src) < 16 + 4 * Fit(DecU64(SubSeq(src, 9, 16)), Len(src) - 16, 4) + 8
    THEN Ok(Inner(DecU64(SubSeq(src, 1, 8)),
                  [i \in 1..Fit(DecU64(SubSeq(src, 9, 16)), Len(src) - 16, 4) |->
                      DecF32(SubSeq(src, 16 + 4 * i - 3, 16 + 4 * i))],
                  <<>>))
    ELSE
        LET dlen == Small(DecU64(SubSeq(src, 9, 16)))
            p == 16 + 4 * dlen
            ilen == Fit(DecU64(SubSeq(src, p + 1, p + 8)), Len(src) - p - 8, 8)
        IN  Ok(Inner(DecU64(SubSeq(src, 1, 8)),
                     [i \in 1..dlen |-> DecF32(SubSeq(src, 16 + 4 * i - 3, 16 + 4 * i))],
                     [i \in 1..ilen |->
                         DecU64(SubSeq(src, p + 8 * i + 1, p + 8 * i + 8))]))

\* bincode::deserialize_from(reader): the fields read back in the same
\* order; running out of bytes is an error, bytes left over are not.
Deserialize(src) ==
    IF Len(src) < 16 THEN Err
    ELSE
        LET d == DecU64(SubSeq(src, 1, 8))
            dlen == DecU64(SubSeq(src, 9, 16))
        IN  IF LenExceeds(dlen, (Len(src) - 16) \div 4) THEN Err
            ELSE
                LET dt == [i \in 1..Small(dlen) |->
                              DecF32(SubSeq(src, 16 + 4 * i - 3, 16 + 4 * i))]
                    p == 16 + 4 * Small(dlen)
                IN  IF Len(src) < p + 8 THEN Err
                    ELSE
                        LET ilen == DecU64(SubSeq(src, p + 1, p + 8))
                        IN  IF LenExceeds(ilen, (Len(src) - p - 8) \div 8) THEN Err
                            ELSE Ok(Inner(d, dt,
                                    [i \in 1..Small(ilen) |->
                                        DecU64(SubSeq(src, p + 8 * i + 1, p + 8 * i + 8))]))

\* ------------------------------------------------------------- the model

VARIABLES
    dim,        \* AbkveInner.dim
    data,       \* AbkveInner.data, the flat buffer of f32
    ids,        \* AbkveInner.ids
    data_cap,   \* capacity of the data Vec
    ids_cap,    \* capacity of the ids Vec
    adds,       \* number of add calls that returned
    call,       \* the call of the single caller that last ran ("idle": none)
    query,      \* its query (the searches)
    threshold,  \* its threshold (the searches)
    result,     \* what it returned: a SearchResult, or Panicked
    buf,        \* the bytes save wrote, or the bytes load read
    loaded,     \* what load or new returned: Err, Aborted or Ok(store)
    arg,        \* its other arguments: add's id and vector, new's dim and capacity
    writer_bit, \* RwLock: a writer holds the lock or waits for the readers to leave
    readers,    \* RwLock: the number of read guards alive
    pc,         \* per thread: where it is in its call
    op,         \* per thread: the call and its arguments
    ret,        \* per thread: what the call's body computed
    issued,     \* per thread: the number of adds it has called
    acquired,   \* the adds granted a guard so far, in the order of the grants
    docs,       \* Storage.data of the key-value store, key to VectorDocument
    file,       \* the file at Storage.path: whether it exists, and its bytes
    saved       \* the documents the Storage held at its last save

storevars == <<dim, data, ids, data_cap, ids_cap, adds>>
callvars == <<call, query, threshold, result, buf, loaded, arg>>
lockvars == <<writer_bit, readers, pc, op, ret>>
histvars == <<issued, acquired>>
kvvars == <<docs, file, saved>>
vars == <<storevars, callvars, lockvars, histvars, kvvars>>

\* Bounds of the model: the rows a store grows to, the threads sharing one,
\* and the threads that keep searching beside the one that adds.
MaxRows == 2
NThreads == 2
NReaders == 2

Threads == 1..NThreads
StreamThreads == 1..(NReaders + 1)
Adder == NReaders + 1

Dims == {1, 2}
Capacities == {1}
Ids == {U64(1), U64(300)}
FHalf == F32(0, 126, 0)
FNegOne == F32(1, 127, 0)
Components == {PosZero, FOne}
QueryComponents == {FNegOne, PosZero, FOne}
Thresholds == {NegInf, PosZero, FHalf, PosInf, QNaN}

Vectors == UNION {[1..n -> Components] : n \in Dims}
NonFiniteQueries == {<<PosInf>>, <<PosInf, PosZero>>}
Queries == UNION {[1..n -> QueryComponents] : n \in Dims} \cup NonFiniteQueries
\* The arguments of new for another store: dim 0, the dims of Dims, 2^31 - 1
\* and 2^32; capacity 0, 1, 2^31 - 1 and 2^32.
NewDims == {U64(d) : d \in Dims \cup {0, 2147483647}} \cup {<<0, 0, 1, 0>>}
NewCapacities == {U64(c) : c \in Capacities \cup {0, 2147483647}} \cup {<<0, 0, 1, 0>>}

NoArg == <<>>

Panicked == "panic"

\* The store of the model's state.
Store == Inner(U64(dim), data, ids)

NoCall ==
    /\ call' = "idle"
    /\ query' = <<>>
    /\ threshold' = PosZero
    /\ result' = None
    /\ buf' = <<>>
    /\ loaded' = None
    /\ arg' = NoArg

NoOp == [name |-> "none"]

\* No thread is in a call and the lock is free.
LockIdle ==
    /\ writer_bit = FALSE
    /\ readers = 0
    /\ pc = [t \in Threads |-> "idle"]
    /\ op = [t \in Threads |-> NoOp]
    /\ ret = [t \in Threads |-> None]
    /\ issued = [t \in Threads |-> 0]
    /\ acquired = <<>>

\* No key-value store has been used: no documents, no file at its path.
NoStorage ==
    /\ docs = [k \in {} |-> None]
    /\ file = [exists |-> FALSE, content |-> <<>>]
    /\ saved = None

StoreUnchanged == UNCHANGED <<storevars, lockvars, histvars, kvvars>>

\* Abkve::new(dim, capacity), dim > 0.
Init ==
    /\ dim \in Dims
    /\ \E capacity \in Capacities :
        /\ data_cap = dim * capacity
        /\ ids_cap = capacity
    /\ data = <<>>
    /\ ids = <<>>
    /\ adds = 0
    /\ call = "idle"
    /\ query = <<>>
    /\ threshold = PosZero
    /\ result = None
    /\ buf = <<>>
    /\ loaded = None
    /\ arg = NoArg
    /\ LockIdle
    /\ NoStorage

\* Abkve::add(id, vector) with a vector of the store's dimension.
Add ==
    /\ call = "idle"
    /\ Len(ids) < MaxRows
    /\ \E id \in Ids, vector \in Vectors :
        /\ Len(vector) = dim
        /\ LET st == AddInner(Store, id, vector)
           IN  /\ data' = st.data
               /\ ids' = st.ids
        /\ data_cap' = PushCap(data_cap, Len(data), dim)
        /\ ids_cap' = PushCap(ids_cap, Len(ids), 1)
        /\ arg' = [id |-> id, vector |-> vector]
    /\ adds' = adds + 1
    /\ call' = "add"
    /\ result' = None
    /\ UNCHANGED <<dim, query, threshold, buf, loaded, lockvars, histvars, kvvars>>

\* An add that takes a vector of the wrong length and stores one row of it,
\* cut or padded with zeros to dim components.
AddResizing ==
    /\ call = "idle"
    /\ Len(ids) < MaxRows
    /\ \E id \in Ids, vector \in Vectors :
        /\ Len(vector) # dim
        /\ data' = data \o [i \in 1..dim |-> IF i <= Len(vector) THEN vector[i] ELSE PosZero]
        /\ ids' = Append(ids, id)
        /\ arg' = [id |-> id, vector |-> vector]
    /\ data_cap' = PushCap(data_cap, Len(data), dim)
    /\ ids_cap' = PushCap(ids_cap, Len(ids), 1)
    /\ adds' = adds + 1
    /\ call' = "add"
    /\ result' = None
    /\ UNCHANGED <<dim, query, threshold, buf, loaded, lockvars, histvars, kvvars>>

\* Abkve::add panicking: the vector's length is not dim (assert_eq!), or its
\* norm is not above zero in a build with debug assertions (debug_assert!).
AddPanic ==
    /\ call = "idle"
    /\ \E id \in Ids, vector \in Vectors :
        /\ \/ Len(vector) # dim
           \/ Len(vector) = dim /\ ~FGt(l2_norm(vector), PosZero)
        /\ arg' = [id |-> id, vector |-> vector]
    /\ call' = "add"
    /\ result' = Panicked
    /\ StoreUnchanged
    /\ UNCHANGED <<query, threshold, buf, loaded>>

\* The three searches panic alike when the query's length is not dim.
SearchPanic ==
    /\ call = "idle"
    /\ \E q \in Queries, t \in Thresholds :
        /\ Len(q) # dim
        /\ query' = q
        /\ threshold' = t
    /\ call' \in {"search", "search_parallel", "search_naive"}
    /\ result' = Panicked
    /\ StoreUnchanged
    /\ UNCHANGED <<buf, loaded, arg>>

\* Abkve::search(query, threshold).
Search ==
    /\ call = "idle"
    /\ \E q \in Queries, t \in Thresholds :
        /\ Len(q) = dim
        /\ query' = q
        /\ threshold' = t
        /\ result' = search(Store, q, t)
    /\ call' = "search"
    /\ StoreUnchanged
    /\ UNCHANGED <<buf, loaded, arg>>

\* Abkve::search_parallel(query, threshold): any result the pool's reduction
\* can produce.
SearchParallel ==
    /\ call = "idle"
    /\ \E q \in Queries, t \in Thresholds :
        /\ Len(q) = dim
        /\ query' = q
        /\ threshold' = t
        /\ result' \in search_parallel(Store, q, t)
    /\ call' = "search_parallel"
    /\ StoreUnchanged
    /\ UNCHANGED <<buf, loaded, arg>>

\* Abkve::search_naive(query, threshold).
SearchNaive ==
    /\ call = "idle"
    /\ \E q \in Queries, t \in Thresholds :
        /\ Len(q) = dim
        /\ query' = q
        /\ threshold' = t
        /\ result' = search_naive(Store, q, t)
    /\ call' = "search_naive"
    /\ StoreUnchanged
    /\ UNCHANGED <<buf, loaded, arg>>

\* Abkve::save(writer) into an empty in-memory sink.
Save ==
    /\ call = "idle"
    /\ buf' = Serialize(Store)
    /\ call' = "save"
    /\ StoreUnchanged
    /\ UNCHANGED <<query, threshold, result, loaded, arg>>

\* The images load is given that save did not write: the store's fields with
\* another dim and with data and ids cut to any lengths.
ForeignImages ==
    {Inner(U64(d), SubSeq(data, 1, n), SubSeq(ids, 1, m)) :
        d \in 0..2, n \in 0..Len(data), m \in 0..Len(ids)}

\* Abkve::load(reader): the reader holds what save just wrote or a prefix of
\* it (a truncated file), or an image from elsewhere.
Load ==
    /\ \/ /\ call = "save"
          /\ \E n \in 0..Len(buf) : buf' = SubSeq(buf, 1, n)
       \/ /\ call = "idle"
          /\ \E img \in ForeignImages : buf' = Serialize(img)
    /\ loaded' = Deserialize(buf')
    /\ call' = "load"
    /\ StoreUnchanged
    /\ UNCHANGED <<query, threshold, result, arg>>

\* Abkve::new(dim, capacity) called for another store, dim = 0 included.
NewStore ==
    /\ call = "idle"
    /\ \E d \in NewDims, capacity \in NewCapacities :
        /\ arg' = [dim |-> d, capacity |-> capacity]
        /\ loaded' \in New(d, capacity)
    /\ call' = "new"
    /\ StoreUnchanged
    /\ UNCHANGED <<query, threshold, result, buf>>

\* Abkve::len().
LenCall ==
    /\ call = "idle"
    /\ result' = Some(len(Store))
    /\ call' = "len"
    /\ StoreUnchanged
    /\ UNCHANGED <<query, threshold, buf, loaded, arg>>

\* Abkve::is_empty().
IsEmptyCall ==
    /\ call = "idle"
    /\ result' = Some(is_empty(Store))
    /\ call' = "is_empty"
    /\ StoreUnchanged
    /\ UNCHANGED <<query, threshold, buf, loaded, arg>>

\* Abkve::dim().
DimCall ==
    /\ call = "idle"
    /\ result' = Some(dim)
    /\ call' = "dim"
    /\ StoreUnchanged
    /\ UNCHANGED <<query, threshold, buf, loaded, arg>>

\* The caller drops what the call returned.
Return ==
    /\ call # "idle"
    /\ NoCall
    /\ StoreUnchanged

Next ==
    \/ Add
    \/ AddPanic
    \/ Search
    \/ SearchParallel
    \/ SearchNaive
    \/ SearchPanic
    \/ Save
    \/ Load
    \/ NewStore
    \/ LenCall
    \/ IsEmptyCall
    \/ DimCall
    \/ Return

Spec == Init /\ [][Next]_vars

\* ------------------------------------------- one store shared by threads

\* The kind of guard each method of Abkve takes on `inner`.
ModeAllShared(name) == "read"

Mode(name) == IF name = "add" THEN "write" ELSE "read"

\* The calls the threads make on the shared store. The id of an add names
\* the calling thread and the number of adds that thread called before.
TaggedId(t, k) == U64(10 * t + k)
Owner(id) == Small(id) \div 10

SharedVector(k) == IF k % 2 = 0 THEN <<FOne, PosZero>> ELSE <<PosZero, FOne>>
SharedQuery == <<FOne, FOne>>

AddCalls(t) ==
    {[name |-> "add", id |-> TaggedId(t, issued[t]),
      vector |-> SharedVector(t + issued[t]), pushed |-> 0]}

SearchCalls ==
    {[name |-> n, query |-> SharedQuery, threshold |-> PosZero] :
        n \in {"search", "search_parallel", "search_naive"}}

ObserverCalls == {[name |-> n] : n \in {"save", "len", "is_empty", "dim"}}

\* The threads whose call is an add that has not yet pushed its id.
Adding == {t \in DOMAIN op : op[t].name = "add" /\ op[t].pushed <= dim}

\* The threads holding a guard on `inner`.
Holding == {t \in DOMAIN pc : pc[t] \in {"held", "unlock"}}
HoldingAdd == {t \in Holding : op[t].name = "add"}
HoldingObserver == {t \in Holding : op[t].name # "add"}

\* Abkve::new(2, 1) shared by the threads, none of them in a call.
InitShared ==
    /\ dim = 2
    /\ data = <<>>
    /\ ids = <<>>
    /\ data_cap = 2
    /\ ids_cap = 1
    /\ adds = 0
    /\ call = "idle"
    /\ query = <<>>
    /\ threshold = PosZero
    /\ result = None
    /\ buf = <<>>
    /\ loaded = None
    /\ arg = NoArg
    /\ LockIdle
    /\ NoStorage

\* The call's vector or query has not the store's dimension: assert_eq! at
\* the top of AbkveInner::add and of the three searches fails.
Mismatched(c) ==
    IF c.name = "add" THEN Len(c.vector) # dim
    ELSE IF c.name \in {"search", "search_parallel", "search_naive"}
        THEN Len(c.query) # dim
    ELSE FALSE

\* The adds granted a guard, once thread t's call is granted its guard; an
\* add that will panic on its vector's length is no add of the serial order.
Granted(t) ==
    IF op[t].name = "add" /\ ~Mismatched(op[t])
        THEN Append(acquired, [id |-> op[t].id, vector |-> op[t].vector])
        ELSE acquired

\* A thread calls a method of the store.
Invoke(t) ==
    /\ pc[t] = "idle"
    /\ \E c \in AddCalls(t) \cup SearchCalls \cup ObserverCalls :
        /\ c.name = "add" => Len(ids) + Cardinality(Adding) < MaxRows
        /\ op' = [op EXCEPT ![t] = c]
        /\ issued' = [issued EXCEPT ![t] = IF c.name = "add" THEN @ + 1 ELSE @]
    /\ pc' = [pc EXCEPT ![t] = "lock"]
    /\ UNCHANGED <<storevars, callvars, writer_bit, readers, ret, acquired, kvvars>>

\* A read guard granted whatever the writer bit says.
LockSharedBarging(t) ==
    /\ pc[t] = "lock"
    /\ Mode(op[t].name) = "read"
    /\ readers' = readers + 1
    /\ pc' = [pc EXCEPT ![t] = "held"]
    /\ acquired' = Granted(t)
    /\ UNCHANGED <<storevars, callvars, writer_bit, op, ret, issued, kvvars>>

\* RwLock::read: a read guard is granted while no writer holds or waits.
LockShared(t) ==
    /\ pc[t] = "lock"
    /\ Mode(op[t].name) = "read"
    /\ writer_bit = FALSE
    /\ readers' = readers + 1
    /\ pc' = [pc EXCEPT ![t] = "held"]
    /\ acquired' = Granted(t)
    /\ UNCHANGED <<storevars, callvars, writer_bit, op, ret, issued, kvvars>>

\* A writer that takes the writer bit only once no reader holds a guard:
\* while the read guards of two threads overlap, readers never falls to 0
\* and this writer waits for ever, however fairly the lock is scheduled.
LockExclusiveWhenFree(t) ==
    /\ pc[t] = "lock"
    /\ Mode(op[t].name) = "write"
    /\ writer_bit = FALSE
    /\ readers = 0
    /\ writer_bit' = TRUE
    /\ pc' = [pc EXCEPT ![t] = "drain"]
    /\ UNCHANGED <<storevars, callvars, readers, op, ret, histvars, kvvars>>

\* RwLock::write, first half: the writer takes the writer bit when it is free.
LockExclusive(t) ==
    /\ pc[t] = "lock"
    /\ Mode(op[t].name) = "write"
    /\ writer_bit = FALSE
    /\ writer_bit' = TRUE
    /\ pc' = [pc EXCEPT ![t] = "drain"]
    /\ UNCHANGED <<storevars, callvars, readers, op, ret, histvars, kvvars>>

\* RwLock::write, second half: the writer waits until the readers have left.
WaitForReaders(t) ==
    /\ pc[t] = "drain"
    /\ readers = 0
    /\ pc' = [pc EXCEPT ![t] = "held"]
    /\ acquired' = Granted(t)
    /\ UNCHANGED <<storevars, callvars, writer_bit, readers, op, ret, issued, kvvars>>

\* AbkveInner::add under the guard: one data.push per step.
AddPushData(t) ==
    /\ pc[t] = "held"
    /\ op[t].name = "add"
    /\ ~Mismatched(op[t])
    /\ op[t].pushed < dim
    /\ data' = Append(data,
                      FMul(op[t].vector[op[t].pushed + 1],
                           InvNorm(l2_norm(op[t].vector))))
    /\ data_cap' = GrowCap(data_cap, Len(data))
    /\ op' = [op EXCEPT ![t].pushed = @ + 1]
    /\ UNCHANGED <<dim, ids, ids_cap, adds, callvars, writer_bit, readers, pc, ret, histvars, kvvars>>

\* The id put in front of the ids already stored.
AddPushIdFront(t) ==
    /\ pc[t] = "held"
    /\ op[t].name = "add"
    /\ op[t].pushed = dim
    /\ ids' = <<op[t].id>> \o ids
    /\ ids_cap' = GrowCap(ids_cap, Len(ids))
    /\ adds' = adds + 1
    /\ op' = [op EXCEPT ![t].pushed = @ + 1]
    /\ pc' = [pc EXCEPT ![t] = "unlock"]
    /\ UNCHANGED <<dim, data, data_cap, callvars, writer_bit, readers, ret, histvars, kvvars>>

\* AbkveInner::add under the guard: the ids.push that ends it.
AddPushId(t) ==
    /\ pc[t] = "held"
    /\ op[t].name = "add"
    /\ op[t].pushed = dim
    /\ ids' = Append(ids, op[t].id)
    /\ ids_cap' = GrowCap(ids_cap, Len(ids))
    /\ adds' = adds + 1
    /\ op' = [op EXCEPT ![t].pushed = @ + 1]
    /\ pc' = [pc EXCEPT ![t] = "unlock"]
    /\ UNCHANGED <<dim, data, data_cap, callvars, writer_bit, readers, ret, histvars, kvvars>>

\* What the body of a reading method computes from the store it sees.
ReadResults(c) ==
    IF c.name = "search" THEN {search(Store, c.query, c.threshold)}
    ELSE IF c.name = "search_parallel"
        THEN search_parallel(Store, c.query, c.threshold)
    ELSE IF c.name = "search_naive"
        THEN {search_naive(Store, c.query, c.threshold)}
    ELSE IF c.name = "save" THEN {Serialize(Store)}
    ELSE IF c.name = "len" THEN {len(Store)}
    ELSE IF c.name = "is_empty" THEN {is_empty(Store)}
    ELSE {dim}

\* The body of search, search_parallel, search_naive, save, len, is_empty
\* or dim under the guard.
ReadBody(t) ==
    /\ pc[t] = "held"
    /\ op[t].name # "add"
    /\ ~Mismatched(op[t])
    /\ \E r \in ReadResults(op[t]) : ret' = [ret EXCEPT ![t] = Some(r)]
    /\ pc' = [pc EXCEPT ![t] = "unlock"]
    /\ UNCHANGED <<storevars, callvars, writer_bit, readers, op, histvars, kvvars>>

\* A guard that is not dropped when the body panicked.
UnlockUnlessPanicked(t) ==
    /\ pc[t] = "unlock"
    /\ IF Mismatched(op[t]) THEN UNCHANGED <<writer_bit, readers>>
       ELSE IF Mode(op[t].name) = "write"
           THEN writer_bit' = FALSE /\ UNCHANGED readers
           ELSE readers' = readers - 1 /\ UNCHANGED writer_bit
    /\ pc' = [pc EXCEPT ![t] = "idle"]
    /\ op' = [op EXCEPT ![t] = NoOp]
    /\ ret' = [ret EXCEPT ![t] = None]
    /\ UNCHANGED <<storevars, callvars, histvars, kvvars>>

\* The guard is dropped, at the end of the body or while its panic unwinds,
\* and the call returns or aborts.
Unlock(t) ==
    /\ pc[t] = "unlock"
    /\ IF Mode(op[t].name) = "write"
           THEN writer_bit' = FALSE /\ UNCHANGED readers
           ELSE readers' = readers - 1 /\ UNCHANGED writer_bit
    /\ pc' = [pc EXCEPT ![t] = "idle"]
    /\ op' = [op EXCEPT ![t] = NoOp]
    /\ ret' = [ret EXCEPT ![t] = None]
    /\ UNCHANGED <<storevars, callvars, histvars, kvvars>>

NextShared ==
    \E t \in Threads :
        \/ Invoke(t)
        \/ LockShared(t)
        \/ LockExclusive(t)
        \/ WaitForReaders(t)
        \/ AddPushData(t)
        \/ AddPushId(t)
        \/ ReadBody(t)
        \/ Unlock(t)

SpecShared == InitShared /\ [][NextShared]_vars

\* The steps the lock takes for a thread: handing it the writer bit,
\* granting it the write guard, releasing its guard.
LockStep(t) ==
    \/ LockExclusive(t)
    \/ WaitForReaders(t)
    \/ Unlock(t)

\* ------------------------------------- searches streaming beside an add

\* Abkve::new(2, 1) shared by the threads of the stream, none in a call.
InitStream ==
    /\ dim = 2
    /\ data = <<>>
    /\ ids = <<>>
    /\ data_cap = 2
    /\ ids_cap = 1
    /\ adds = 0
    /\ call = "idle"
    /\ query = <<>>
    /\ threshold = PosZero
    /\ result = None
    /\ buf = <<>>
    /\ loaded = None
    /\ arg = NoArg
    /\ writer_bit = FALSE
    /\ readers = 0
    /\ pc = [t \in StreamThreads |-> "idle"]
    /\ op = [t \in StreamThreads |-> NoOp]
    /\ ret = [t \in StreamThreads |-> None]
    /\ issued = [t \in StreamThreads |-> 0]
    /\ acquired = <<>>
    /\ NoStorage

\* A thread of the stream calls the store: the adder add, every other
\* thread one of the searches, again and again.
InvokeStream(t) ==
    /\ pc[t] = "idle"
    /\ \E c \in (IF t = Adder THEN AddCalls(t) ELSE SearchCalls) :
        /\ c.name = "add" => Len(ids) + Cardinality(Adding) < MaxRows
        /\ op' = [op EXCEPT ![t] = c]
        /\ issued' = [issued EXCEPT ![t] = IF c.name = "add" THEN @ + 1 ELSE @]
    /\ pc' = [pc EXCEPT ![t] = "lock"]
    /\ UNCHANGED <<storevars, callvars, writer_bit, readers, ret, acquired, kvvars>>

NextStream ==
    \E t \in StreamThreads :
        \/ InvokeStream(t)
        \/ LockShared(t)
        \/ LockExclusive(t)
        \/ WaitForReaders(t)
        \/ AddPushData(t)
        \/ AddPushId(t)
        \/ ReadBody(t)
        \/ Unlock(t)

SpecStream == InitStream /\ [][NextStream]_vars

\* The lock hands a free writer bit to a waiting writer and grants and
\* releases guards without delay, and a thread inside the body of its call
\* (a bounded loop) leaves it in the end.  Nothing is assumed of the
\* searches: they may be called, and granted their guards, at any rate.
FairStream ==
    \A t \in StreamThreads :
        /\ WF_vars(LockStep(t))
        /\ []<>(pc[t] # "held")

SpecStreamFair == SpecStream /\ FairStream

\* ------------------------------------------ adds over wider components

FThree == F32(0, 128, 4194304)
FFour == F32(0, 129, 0)
\* 2^64, whose square is above f32::MAX, and 2^-40, a norm below 1e-10.
FHuge == F32(0, 191, 0)
FTiny == F32(0, 87, 0)
\* The literal 0.99 as an f32 (0x3f7d70a4), the threshold of
\* test_normalization_invariant.
SelfThreshold == F32(0, 126, 8220836)

NormComponents == {PosZero, FOne, FThree, FFour, FHuge, FTiny}
NormVectors == UNION {[1..n -> NormComponents] : n \in Dims}

\* Abkve::add(id, vector) of a vector of the store's dimension, the caller
\* numbering its rows 1, 2, ...; the adds are logged in call order.
AddNumbered ==
    /\ call = "idle"
    /\ Len(ids) < MaxRows
    /\ \E vector \in NormVectors :
        /\ Len(vector) = dim
        /\ LET st == AddInner(Store, U64(Len(ids) + 1), vector)
           IN  /\ data' = st.data
               /\ ids' = st.ids
        /\ arg' = [id |-> U64(Len(ids) + 1), vector |-> vector]
        /\ acquired' = Append(acquired, [id |-> U64(Len(ids) + 1), vector |-> vector])
    /\ data_cap' = PushCap(data_cap, Len(data), dim)
    /\ ids_cap' = PushCap(ids_cap, Len(ids), 1)
    /\ adds' = adds + 1
    /\ call' = "add"
    /\ result' = None
    /\ UNCHANGED <<dim, query, threshold, buf, loaded, lockvars, issued, kvvars>>

\* Abkve::search(query, threshold) with a vector that was added before.
SearchAdded ==
    /\ call = "idle"
    /\ \E i \in 1..Len(acquired) :
        /\ query' = acquired[i].vector
        /\ threshold' = SelfThreshold
        /\ result' = search(Store, acquired[i].vector, SelfThreshold)
    /\ call' = "search"
    /\ StoreUnchanged
    /\ UNCHANGED <<buf, loaded, arg>>

NextNorm ==
    \/ AddNumbered
    \/ AddPanic
    \/ SearchAdded
    \/ Return

SpecNorm == Init /\ [][NextNorm]_vars


\* --------------------------------- key-value store (packages/storage)

\* Keys and vectors of the documents; an f64 component n.0 is the integer n.
Keys == {<<"a">>, <<"b">>}
DocVectors == {<<1>>, <<1, 2>>}
VectorDocument(k, v) == [key |-> k, vector |-> v, metadata |-> None]

\* HashMap::new, insert and remove.
NoDocs == [k \in {} |-> None]
insert(m, k, d) == [x \in DOMAIN m \cup {k} |-> IF x = k THEN d ELSE m[x]]
remove(m, k) == [x \in DOMAIN m \ {k} |-> m[x]]

\* serde_json::to_string: compact JSON, one character per byte.
Digit == <<"0", "1", "2", "3", "4", "5", "6", "7", "8", "9">>
FmtF64(n) == <<Digit[n + 1], ".", "0">>
Quoted(cs) == <<"\"">> \o cs \o <<"\"">>

RECURSIVE Join(_, _)
Join(ss, sep) ==
    IF Len(ss) = 0 THEN <<>>
    ELSE IF Len(ss) = 1 THEN ss[1]
    ELSE ss[1] \o sep \o Join(Tail(ss), sep)

VectorJson(v) ==
    <<"[">> \o Join([i \in 1..Len(v) |-> FmtF64(v[i])], <<",">>) \o <<"]">>

KeyField == Quoted(<<"k", "e", "y">>) \o <<":">>
VectorField == <<",">> \o Quoted(<<"v", "e", "c", "t", "o", "r">>) \o <<":">>
MetadataField ==
    <<",">> \o Quoted(<<"m", "e", "t", "a", "d", "a", "t", "a">>) \o <<":">>
Null == <<"n", "u", "l", "l">>

\* A VectorDocument: its fields in declaration order, metadata None as null.
DocumentJson(d) ==
    <<"{">> \o KeyField \o Quoted(d.key) \o VectorField \o VectorJson(d.vector)
        \o MetadataField \o Null \o <<"}">>

\* The orders in which a HashMap may iterate over the keys S.
Orders(S) ==
    {o \in [1..Cardinality(S) -> S] :
        \A i, j \in 1..Cardinality(S) : i # j => o[i] # o[j]}

MapJson(m, o) ==
    <<"{">>
        \o Join([i \in 1..Len(o) |-> Quoted(o[i]) \o <<":">> \o DocumentJson(m[o[i]])],
                <<",">>)
        \o <<"}">>

to_string(m) == {MapJson(m, o) : o \in Orders(DOMAIN m)}

\* serde_json::from_str: a recursive-descent parse of one value from the
\* front of the text. A parse yields the value and the position after it.
Fail == [ok |-> FALSE]
Parsed(v, p) == [ok |-> TRUE, val |-> v, next |-> p]

At(s, p) == IF p <= Len(s) THEN s[p] ELSE "eof"

Expect(s, p, lit) ==
    IF p + Len(lit) - 1 <= Len(s) /\ SubSeq(s, p, p + Len(lit) - 1) = lit
        THEN Parsed(lit, p + Len(lit))
        ELSE Fail

\* The position of the quote closing a string whose characters start at p
\* (0: none); the model's keys need no escapes.
RECURSIVE StringEnd(_, _)
StringEnd(s, p) ==
    IF p > Len(s) THEN 0
    ELSE IF s[p] = "\"" THEN p
    ELSE StringEnd(s, p + 1)

ParseString(s, p) ==
    IF At(s, p) # "\"" THEN Fail
    ELSE LET e == StringEnd(s, p + 1)
         IN  IF e = 0 THEN Fail ELSE Parsed(SubSeq(s, p + 1, e - 1), e + 1)

IsDigit(c) == \E n \in 1..10 : Digit[n] = c
DigitValue(c) == (CHOOSE n \in 1..10 : Digit[n] = c) - 1

\* The position after the run of digits that starts at p.
RECURSIVE DigitsEnd(_, _)
DigitsEnd(s, p) ==
    IF p <= Len(s) /\ IsDigit(s[p]) THEN DigitsEnd(s, p + 1) ELSE p

\* The value of the digits s[p .. e - 1], after the value acc.
RECURSIVE Decimal(_, _, _, _)
Decimal(s, p, e, acc) ==
    IF p >= e THEN acc ELSE Decimal(s, p + 1, e, 10 * acc + DigitValue(s[p]))

\* A number: digits, then an optional fraction. The model's numbers are
\* whole, so a text with a fraction other than zero has no value in it.
ParseNumber(s, p) ==
    LET e == DigitsEnd(s, p)
        f == DigitsEnd(s, e + 1)
    IN  IF e = p THEN Fail
        ELSE IF At(s, e) # "." THEN Parsed(Decimal(s, p, e, 0), e)
        ELSE IF f = e + 1 \/ Decimal(s, e + 1, f, 0) # 0 THEN Fail
        ELSE Parsed(Decimal(s, p, e, 0), f)

\* The elements of an array after "[" or ",", up to "]".
RECURSIVE ParseElements(_, _, _)
ParseElements(s, p, acc) ==
    LET n == ParseNumber(s, p)
    IN  IF ~n.ok THEN Fail
        ELSE IF At(s, n.next) = "," THEN ParseElements(s, n.next + 1, Append(acc, n.val))
        ELSE IF At(s, n.next) = "]" THEN Parsed(Append(acc, n.val), n.next + 1)
        ELSE Fail

ParseVector(s, p) ==
    IF At(s, p) # "[" THEN Fail
    ELSE IF At(s, p + 1) = "]" THEN Parsed(<<>>, p + 2)
    ELSE ParseElements(s, p + 1, <<>>)

\* A VectorDocument, its fields in the order to_string writes them.
ParseVectorField(s, k) ==
    LET b == Expect(s, k.next, VectorField)
    IN  IF ~b.ok THEN Fail ELSE ParseVector(s, b.next)

ParseDocumentEnd(s, k, v) ==
    LET c == Expect(s, v.next, MetadataField \o Null \o <<"}">>)
    IN  IF ~c.ok THEN Fail ELSE Parsed(VectorDocument(k.val, v.val), c.next)

ParseDocumentFields(s, k) ==
    LET v == ParseVectorField(s, k)
    IN  IF ~v.ok THEN Fail ELSE ParseDocumentEnd(s, k, v)

ParseDocument(s, p) ==
    LET a == Expect(s, p, <<"{">> \o KeyField)
        k == ParseString(s, a.next)
    IN  IF ~a.ok THEN Fail
        ELSE IF ~k.ok THEN Fail
        ELSE ParseDocumentFields(s, k)

\* The entries of a map after "{" or ",", up to "}"; a later entry replaces
\* an earlier one of the same key.
RECURSIVE ParseEntries(_, _, _)
ParseEntry(s, k, d, m) ==
    IF At(s, d.next) = "," THEN ParseEntries(s, d.next + 1, insert(m, k.val, d.val))
    ELSE IF At(s, d.next) = "}" THEN Parsed(insert(m, k.val, d.val), d.next + 1)
    ELSE Fail

ParseEntries(s, p, m) ==
    LET k == ParseString(s, p)
        d == ParseDocument(s, k.next + 1)
    IN  IF ~k.ok THEN Fail
        ELSE IF At(s, k.next) # ":" THEN Fail
        ELSE IF ~d.ok THEN Fail
        ELSE ParseEntry(s, k, d, m)

ParseMap(s, p) ==
    IF At(s, p) # "{" THEN Fail
    ELSE IF At(s, p + 1) = "}" THEN Parsed(NoDocs, p + 2)
    ELSE ParseEntries(s, p + 1, NoDocs)

\* Deserializer::end: after the value only whitespace may follow.
Whitespace == {" ", "\n", "\t", "\r"}

from_str(s) ==
    LET m == ParseMap(s, 1)
    IN  IF ~m.ok THEN Fail
        ELSE IF \E i \in m.next..Len(s) : s[i] \notin Whitespace THEN Fail
        ELSE m

\* OpenOptions::new().write(true).create(true).open(path) and write_all: the
\* file is created if absent and written from position 0; bytes of an
\* existing file beyond the written text stay.
Write(f, text) ==
    [exists |-> TRUE,
     content |-> text \o SubSeq(f.content, Len(text) + 1, Len(f.content))]

\* Everything outside the key-value store stays as it is.
AbkveUnchanged ==
    UNCHANGED <<storevars, lockvars, histvars, query, threshold, buf, loaded, arg>>

\* Storage::new(path): a Storage with no documents; the file is not touched.
StorageNew ==
    /\ call = "idle"
    /\ docs' = NoDocs
    /\ call' = "storage_new"
    /\ result' = None
    /\ UNCHANGED <<file, saved>>
    /\ AbkveUnchanged

\* Storage::store_vector(document).
StoreVector ==
    /\ call = "idle"
    /\ \E k \in Keys, v \in DocVectors : docs' = insert(docs, k, VectorDocument(k, v))
    /\ call' = "store_vector"
    /\ result' = None
    /\ UNCHANGED <<file, saved>>
    /\ AbkveUnchanged

\* Storage::update_vector(document).
UpdateVector ==
    /\ call = "idle"
    /\ \E k \in Keys, v \in DocVectors : docs' = insert(docs, k, VectorDocument(k, v))
    /\ call' = "update_vector"
    /\ result' = None
    /\ UNCHANGED <<file, saved>>
    /\ AbkveUnchanged

\* Storage::delete_document(key).
DeleteDocument ==
    /\ call = "idle"
    /\ \E k \in Keys : docs' = remove(docs, k)
    /\ call' = "delete_document"
    /\ result' = None
    /\ UNCHANGED <<file, saved>>
    /\ AbkveUnchanged

\* Storage::save().
StorageSave ==
    /\ call = "idle"
    /\ \E text \in to_string(docs) : file' = Write(file, text)
    /\ saved' = Some(docs)
    /\ call' = "storage_save"
    /\ result' = None
    /\ UNCHANGED docs
    /\ AbkveUnchanged

\* Storage::load(): self.data becomes the map read from the file; a panic
\* (the file cannot be opened, or from_str fails) leaves self.data as it was.
StorageLoad ==
    /\ call = "idle"
    /\ call' = "storage_load"
    /\ IF file.exists /\ from_str(file.content).ok
       THEN /\ docs' = from_str(file.content).val
            /\ result' = Some(from_str(file.content).val)
       ELSE /\ docs' = docs
            /\ result' = Panicked
    /\ UNCHANGED <<file, saved>>
    /\ AbkveUnchanged

NextStorage ==
    \/ StorageNew
    \/ StoreVector
    \/ UpdateVector
    \/ DeleteDocument
    \/ StorageSave
    \/ StorageLoad
    \/ Return

SpecStorage == Init /\ [][NextStorage]_vars


\* ------------------------------------------- the unchecked reads of search

\* The row slices search reads with get_unchecked: base .. base + dim for
\* every i < n_vecs (0-based, hi excluded).
RowSlices(st) ==
    {[lo |-> i * Dim(st), hi |-> (i + 1) * Dim(st)] : i \in 0..(Len(st.ids) - 1)}

RowSlicesInBounds(st) == \A r \in RowSlices(st) : r.hi <= Len(st.data)

\* The indices (0-based) dot_product_unrolled reads with get_unchecked in
\* both operands: base .. base + 7 for every i < a.len() / 8.
UnrolledIndices(a) ==
    {8 * i + k : i \in 0..((Len(a) \div 8) - 1), k \in 0..7}

UnrolledInBounds(a, b) ==
    \A j \in UnrolledIndices(a) : j < Len(a) /\ j < Len(b)

\* The outcome of a call that read out of bounds with get_unchecked:
\* undefined behaviour.  The store and the arguments do not determine it:
\* the call may return None or any id with any score computed from the
\* memory behind the buffer, or fault.
Undefined == "undefined"

\* The outcomes of an out-of-bounds get_unchecked: the abort of the
\* precondition check in a build with debug assertions, and undefined
\* behaviour without them.
OutOfBoundsOutcomes == {Panicked, Undefined}

\* Abkve::search on any store: it reads out of bounds when a row slice
\* does, and otherwise returns what the scan returns.
search_undefined(st) == Len(st.ids) > 0 /\ ~RowSlicesInBounds(st)

search_returns(st, q, t) ==
    IF search_undefined(st) THEN {} ELSE {search(st, q, t)}

\* Abkve::search_parallel on any store. par_chunks panics on a chunk size
\* of 0. A chunk shorter than dim fails debug_assert_eq! in a build with
\* debug assertions; without them the unrolled loop reads it unchecked, and
\* the remainder loop's checked index panics if the unrolled loop stayed in
\* bounds. self.ids[best_idx] is a checked index.
FullChunks(st) == \A i \in 1..Len(ParChunks(st)) : Len(ParChunks(st)[i]) = Dim(st)

search_parallel_undefined(st, q) ==
    IF Len(st.ids) = 0 \/ Dim(st) = 0 THEN FALSE
    ELSE \E i \in 1..Len(ParChunks(st)) : ~UnrolledInBounds(q, ParChunks(st)[i])

IndexPanics(st, t, best) ==
    /\ ~(best[1] = UsizeMax \/ FLe(best[2], t))
    /\ best[1] >= Len(st.ids)

search_parallel_panics(st, q, t) ==
    IF Len(st.ids) = 0 THEN FALSE
    ELSE IF Dim(st) = 0 THEN TRUE
    ELSE IF ~FullChunks(st) THEN TRUE
    ELSE \E best \in ReduceAll(ParScored(st, normalize_vec(q))) : IndexPanics(st, t, best)

search_parallel_returns(st, q, t) ==
    IF Len(st.ids) = 0 THEN {None}
    ELSE IF Dim(st) = 0 THEN {}
    ELSE IF FullChunks(st)
        THEN {ParallelResult(st, t, best) :
                best \in {b \in ReduceAll(ParScored(st, normalize_vec(q))) :
                            ~IndexPanics(st, t, b)}}
    ELSE {}

\* Stores of a dimension that reaches the unrolled loop, and images from
\* elsewhere: any dim, any number of data values, any number of ids.
WideDims == {1, 8}
Ones(n) == [i \in 1..n |-> FOne]
UnitVector(n) == [i \in 1..n |-> IF i = 1 THEN FOne ELSE PosZero]
WideVectors == {Ones(n) : n \in WideDims} \cup {UnitVector(n) : n \in WideDims}
WideQueries == WideVectors \cup {<<>>}

ImageLengths(d) == IF d = 8 THEN {0, 4, 8, 12, 16} ELSE {0, 1, 2, 3}

\* Abkve::new(dim, capacity), or Abkve::load of an image that load accepts.
InitLoaded ==
    /\ \/ /\ dim \in WideDims
          /\ data = <<>>
          /\ ids = <<>>
       \/ \E d \in WideDims \cup {0}, is \in {<<>>, <<U64(1)>>, <<U64(1), U64(2)>>} :
            \E n \in ImageLengths(d) :
                LET r == Deserialize(Serialize(Inner(U64(d), Ones(n), is)))
                IN  /\ r.ok
                    /\ dim = Dim(r.inner)
                    /\ data = r.inner.data
                    /\ ids = r.inner.ids
    /\ data_cap = Len(data)
    /\ ids_cap = Len(ids)
    /\ adds = 0
    /\ call = "idle"
    /\ query = <<>>
    /\ threshold = PosZero
    /\ result = None
    /\ buf = <<>>
    /\ loaded = None
    /\ arg = NoArg
    /\ LockIdle
    /\ NoStorage

\* Abkve::add(id, vector) with a vector of the store's dimension.
AddWide ==
    /\ call = "idle"
    /\ Len(ids) < MaxRows
    /\ \E vector \in WideVectors :
        /\ Len(vector) = dim
        /\ LET st == AddInner(Store, U64(Len(ids) + 1), vector)
           IN  /\ data' = st.data
               /\ ids' = st.ids
        /\ arg' = [id |-> U64(Len(ids) + 1), vector |-> vector]
    /\ data_cap' = PushCap(data_cap, Len(data), dim)
    /\ ids_cap' = PushCap(ids_cap, Len(ids), 1)
    /\ adds' = adds + 1
    /\ call' = "add"
    /\ result' = None
    /\ UNCHANGED <<dim, query, threshold, buf, loaded, lockvars, histvars, kvvars>>

\* Abkve::search(query, threshold) on a store that new, add or load built.
SearchUnchecked ==
    /\ call = "idle"
    /\ \E q \in WideQueries :
        /\ Len(q) = dim
        /\ query' = q
        /\ threshold' = PosZero
        /\ \/ result' \in search_returns(Store, q, PosZero)
           \/ search_undefined(Store) /\ result' \in OutOfBoundsOutcomes
    /\ call' = "search"
    /\ StoreUnchanged
    /\ UNCHANGED <<buf, loaded, arg>>

\* Abkve::search_parallel(query, threshold) on such a store.
SearchParallelUnchecked ==
    /\ call = "idle"
    /\ \E q \in WideQueries :
        /\ Len(q) = dim
        /\ query' = q
        /\ threshold' = PosZero
        /\ \/ result' \in search_parallel_returns(Store, q, PosZero)
           \/ search_parallel_panics(Store, q, PosZero) /\ result' = Panicked
           \/ search_parallel_undefined(Store, q) /\ result' = Undefined
    /\ call' = "search_parallel"
    /\ StoreUnchanged
    /\ UNCHANGED <<buf, loaded, arg>>

NextLoaded ==
    \/ AddWide
    \/ SearchUnchecked
    \/ SearchParallelUnchecked
    \/ Return

SpecLoaded == InitLoaded /\ [][NextLoaded]_vars


\* ------------------------------------------------ the kernel on its own

\* The indices (0-based) the remainder loop reads: chunks * 8 .. len - 1.
RemainderIndices(a) == ((Len(a) \div 8) * 8)..(Len(a) - 1)

\* `n as f32` for a natural number n; exact below 2^24.
FromNat(n) == RoundPack(0, n, 0)
Floats(v) == [i \in 1..Len(v) |-> FromNat(v[i])]

\* Operands with whole components small enough for every product and sum
\* of the kernel to be exact in f32: a single component 3 against a single
\* component 5 at any two positions, all ones, and the 0, 1, 2, ... of
\* test_dot_product_unrolled_correctness.
KernelLengths == {0, 1, 7, 8, 9, 15, 16, 17}
Single(n, i, x) == [k \in 1..n |-> IF k = i THEN x ELSE 0]
Ramp(n) == [k \in 1..n |-> k - 1]
KernelOperands ==
    UNION {{[a |-> Single(n, i, 3), b |-> Single(n, j, 5)] : i, j \in 1..n} :
            n \in KernelLengths}
        \cup {[a |-> Ramp(n), b |-> Ramp(n)] : n \in KernelLengths}
        \cup {[a |-> [k \in 1..n |-> 1], b |-> Ramp(n)] : n \in KernelLengths}

\* dot_product_unrolled(a, b) called on its own.
DotProduct ==
    /\ call = "idle"
    /\ \E o \in KernelOperands :
        /\ arg' = o
        /\ query' = Floats(o.a)
        /\ result' = Some(dot_product_unrolled(Floats(o.a), Floats(o.b)))
    /\ call' = "dot_product_unrolled"
    /\ StoreUnchanged
    /\ UNCHANGED <<threshold, buf, loaded>>

NextKernel ==
    \/ DotProduct
    \/ Return

SpecKernel == Init /\ [][NextKernel]_vars


\* -------------------------------- shared store, calls of a wrong dimension

ShortVector == <<FOne>>

MismatchedCalls(t) ==
    {[name |-> "add", id |-> TaggedId(t, issued[t]), vector |-> ShortVector, pushed |-> 0]}
        \cup {[name |-> n, query |-> ShortVector, threshold |-> PosZero] :
                n \in {"search", "search_parallel", "search_naive"}}

\* A thread calls add or a search with a vector of another length than dim;
\* the calls are finitely many: a thread calls add MaxRows times at most.
InvokeMismatched(t) ==
    /\ pc[t] = "idle"
    /\ \E c \in MismatchedCalls(t) :
        /\ c.name = "add" => issued[t] < MaxRows
        /\ op' = [op EXCEPT ![t] = c]
        /\ issued' = [issued EXCEPT ![t] = IF c.name = "add" THEN @ + 1 ELSE @]
    /\ pc' = [pc EXCEPT ![t] = "lock"]
    /\ UNCHANGED <<storevars, callvars, writer_bit, readers, ret, acquired, kvvars>>

\* assert_eq! fails at the top of the body, under the guard.
BodyPanics(t) ==
    /\ pc[t] = "held"
    /\ Mismatched(op[t])
    /\ ret' = [ret EXCEPT ![t] = Some(Panicked)]
    /\ pc' = [pc EXCEPT ![t] = "unlock"]
    /\ UNCHANGED <<storevars, callvars, writer_bit, readers, op, histvars, kvvars>>

NextCalls ==
    \E t \in Threads :
        \/ Invoke(t)
        \/ InvokeMismatched(t)
        \/ LockShared(t)
        \/ LockExclusive(t)
        \/ WaitForReaders(t)
        \/ AddPushData(t)
        \/ AddPushId(t)
        \/ ReadBody(t)
        \/ BodyPanics(t)
        \/ Unlock(t)

SpecCalls == InitShared /\ [][NextCalls]_vars

\* The lock's steps are taken without delay, a read guard included once no
\* writer holds or waits, and a body ends or panics.
FairCalls ==
    \A t \in Threads :
        /\ WF_vars(LockStep(t))
        /\ WF_vars(LockShared(t))
        /\ []<>(pc[t] # "held")

SpecCallsFair == SpecCalls /\ FairCalls


\* ------------------------------------------------------------ the claims

\* The score of every stored row against the call's query, as the kernel
\* computes it (row i of the store is Scores[i + 1]).
Scores ==
    [i \in 1..Len(ids) |->
        dot_product_unrolled(normalize_vec(query), Row(Store, i - 1))]

\* The rows (1-based) whose score is strictly above the threshold.
RowsAbove(sc) == {i \in 1..Len(sc) : FGt(sc[i], threshold)}

\* The rows no other row outscores.
RowsMax(sc) == {i \in 1..Len(sc) : \A j \in 1..Len(sc) : ~FGt(sc[j], sc[i])}

Min(S) == CHOOSE x \in S : \A y \in S : x <= y

Returned(c) == call = c /\ result # Panicked

\* C1: search returns None exactly when no stored row scores strictly above
\* the threshold; otherwise it returns the id of a row attaining the maximal
\* score, with that score, which is above the threshold.
SearchContract(sc) ==
    /\ result = None <=> RowsAbove(sc) = {}
    /\ result # None =>
        \E i \in RowsAbove(sc) :
            /\ i \in RowsMax(sc)
            /\ result[1][1] = ids[i]
            /\ result[1][2] = sc[i]
            /\ FGt(result[1][2], threshold)

C1_SearchBestAboveThreshold == Returned("search") => SearchContract(Scores)

\* A search where one row scores exactly the threshold and is passed over
\* for a row with another id that scores above it.
C1_Witness ==
    /\ Returned("search")
    /\ result # None
    /\ \E i, j \in 1..Len(ids) :
        /\ FEq(Scores[i], threshold)
        /\ FGt(Scores[j], threshold)
        /\ ids[i] # ids[j]
        /\ result[1][1] = ids[j]

\* C2: after k adds that returned, len() = k, |ids| = k and |data| = k * dim.
C2_LenCountsAdds ==
    /\ Len(ids) = adds
    /\ Len(data) = adds * dim
    /\ Len(data) <= data_cap
    /\ Len(ids) <= ids_cap

\* Two adds with the same id, the second beyond the capacity hint.
C2_Witness ==
    /\ adds = 2
    /\ Len(ids) = 2
    /\ ids[1] = ids[2]
    /\ \A c \in Capacities : Len(ids) > c

\* C3: when several rows attain the maximal score above the threshold,
\* search returns the id of the one with the lowest row index.
C3_EarliestRowWinsTies ==
    (Returned("search") /\ result # None) =>
        result[1][1] = ids[Min(RowsMax(Scores))]

\* Two rows with different ids tie for the maximal score; the first is
\* returned.
C3_Witness ==
    /\ Returned("search")
    /\ result # None
    /\ Len(ids) = 2
    /\ ids[1] # ids[2]
    /\ dim = 2
    /\ data[1] # data[3]
    /\ RowsMax(Scores) = {1, 2}
    /\ result[1][1] = ids[1]

\* C4: whatever the store, the query and the threshold, and whatever way
\* the pool splits and groups the reduction, search_parallel returns what
\* search returns.
C4_ParallelMatchesSearch ==
    Returned("search_parallel") => result = search(Store, query, threshold)

\* C5: search_naive returns None in the same cases as search and otherwise
\* the same id.
C5_NaiveMatchesSearch ==
    Returned("search_naive") =>
        /\ result = None <=> search(Store, query, threshold) = None
        /\ result # None => result[1][1] = search(Store, query, threshold)[1][1]

\* C6: load(save(X)) succeeds and yields X's dim, ids and data.
C6_LoadSaveRoundTrip ==
    (call = "load" /\ buf = Serialize(Store)) =>
        /\ loaded.ok
        /\ loaded.inner.dim = U64(dim)
        /\ loaded.inner.ids = ids
        /\ loaded.inner.data = data
        /\ Len(loaded.inner.ids) = Len(ids)

\* A store of two rows, one with inexact components, loaded back from its
\* image.
C6_Witness ==
    /\ call = "load"
    /\ buf = Serialize(Store)
    /\ Len(ids) = 2
    /\ \E i \in 1..Len(data) : Frac(data[i]) # 0
    /\ loaded = Ok(Store)

\* The fields of an image are inconsistent.
Inconsistent(img) == Dim(img) = 0 \/ Len(img.data) # Len(img.ids) * Dim(img)

\* C7: load returns an error whenever the image's dim is 0 or its data
\* length differs from its ids length times dim.
C7_LoadRejectsInconsistent ==
    \A img \in ForeignImages :
        (call = "load" /\ buf = Serialize(img) /\ Inconsistent(img)) => ~loaded.ok

\* b is a proper prefix of c.
ProperPrefix(b, c) == Len(b) < Len(c) /\ b = SubSeq(c, 1, Len(b))

\* C8: load of a proper prefix of a saved image returns an error.
C8_TruncatedImageRejected ==
    (call = "load" /\ ProperPrefix(buf, Serialize(Store))) => ~loaded.ok

\* The image of a two-row store cut inside its last id, after all of data
\* and the first id, is rejected.
C8_Witness ==
    /\ call = "load"
    /\ Len(ids) = 2
    /\ ProperPrefix(buf, Serialize(Store))
    /\ Len(buf) > 16 + 4 * Len(data) + 8 + 8
    /\ ~loaded.ok

\* The values of kind u64 read from b at byte offset p.
U64At(b, p) == DecU64(SubSeq(b, p + 1, p + 8))
F32At(b, p) == DecF32(SubSeq(b, p + 1, p + 4))

\* b holds dim, then the length of data and data, then the length of ids
\* and ids.
LayoutDataFirst(b) ==
    /\ Len(b) = 8 + 8 + 4 * Len(data) + 8 + 8 * Len(ids)
    /\ U64At(b, 0) = U64(dim)
    /\ U64At(b, 8) = U64(Len(data))
    /\ \A i \in 1..Len(data) : F32At(b, 16 + 4 * (i - 1)) = data[i]
    /\ U64At(b, 16 + 4 * Len(data)) = U64(Len(ids))
    /\ \A i \in 1..Len(ids) : U64At(b, 24 + 4 * Len(data) + 8 * (i - 1)) = ids[i]

\* b holds dim, then the length of ids and ids, then the length of data
\* and data.
LayoutIdsFirst(b) ==
    /\ Len(b) = 8 + 8 + 8 * Len(ids) + 8 + 4 * Len(data)
    /\ U64At(b, 0) = U64(dim)
    /\ U64At(b, 8) = U64(Len(ids))
    /\ \A i \in 1..Len(ids) : U64At(b, 16 + 8 * (i - 1)) = ids[i]
    /\ U64At(b, 16 + 8 * Len(ids)) = U64(Len(data))
    /\ \A i \in 1..Len(data) : F32At(b, 24 + 8 * Len(ids) + 4 * (i - 1)) = data[i]

\* C9 as stated: the image written by save holds dim, ids_len, the ids,
\* data_len, the data values, in this order.
C9_ImageIdsBeforeData == call = "save" => LayoutIdsFirst(buf)

\* C9 as amended: the image written by save holds dim, data_len, the data
\* values, ids_len, the ids, in this order (the order of the struct's fields).
C9_ImageDataBeforeIds == call = "save" => LayoutDataFirst(buf)

\* The image of a store of two rows of two components.
C9_Witness ==
    /\ call = "save"
    /\ dim = 2
    /\ Len(ids) = 2
    /\ ids[1] # ids[2]
    /\ LayoutDataFirst(buf)

\* C10: on one shared store at most one add holds access at a time, and while
\* it does no search, search_parallel, search_naive, save, len, is_empty or
\* dim holds access (two or more of those may hold access together).
C10_WriterExcludesAll ==
    /\ Cardinality(HoldingAdd) <= 1
    /\ HoldingAdd # {} => HoldingObserver = {}

\* Two observers hold access at the same time, on a store an add has written.
C10_Witness ==
    /\ Cardinality(HoldingObserver) >= 2
    /\ Len(ids) >= 1

\* The calls that take a query.
Searches == {"search", "search_parallel", "search_naive"}

\* The calls that only read the store, and load.
Observers == Searches \cup {"save", "len", "is_empty", "dim", "load"}

\* The store after the adds of the sequence calls, run one after another on st.
RECURSIVE Serial(_, _)
Serial(st, calls) ==
    IF calls = <<>> THEN st
    ELSE Serial(AddInner(st, Head(calls).id, Head(calls).vector), Tail(calls))

\* The threads that hold a guard for a search, and those inside an add's body.
HoldingSearch == {t \in Holding : op[t].name \in Searches}
InAddBody == {t \in HoldingAdd : pc[t] = "held"}

\* The adds granted a guard whose body has ended.
Completed ==
    IF InAddBody = {} THEN acquired ELSE SubSeq(acquired, 1, Len(acquired) - 1)

\* C11: while a search holds its guard the store is the store after a whole
\* number of completed adds, with data and ids of the same row count, what
\* the search returns is a result of scanning that store, and no step
\* changes the store.
C11_SearchSeesSnapshot ==
    /\ [](HoldingSearch # {} =>
            /\ Len(ids) = adds
            /\ Len(data) = Len(ids) * dim
            /\ Store = Serial(NewInner(dim), acquired)
            /\ \A t \in HoldingSearch :
                pc[t] = "unlock" => ret[t][1] \in ReadResults(op[t]))
    /\ [][HoldingSearch # {} => UNCHANGED <<dim, data, ids>>]_vars

\* A search has scanned a store of one row and found it, while an add
\* called meanwhile waits for the search to release its guard.
C11_Witness ==
    \E t \in HoldingSearch, u \in Threads :
        /\ pc[t] = "unlock"
        /\ op[t].name = "search"
        /\ Len(ids) = 1
        /\ ret[t] = Some(search(Store, op[t].query, op[t].threshold))
        /\ ret[t] # Some(None)
        /\ pc[u] = "drain"

\* C12: the rows of the store are those of the adds run one after another
\* in the order they were granted write access: none is lost, each forms
\* one whole row, and the components of two adds are never interleaved.
C12_AddsSerialised ==
    /\ Len(ids) = Len(Completed)
    /\ Len(data) >= Len(ids) * dim
    /\ Inner(U64(dim), SubSeq(data, 1, Len(ids) * dim), ids) = Serial(NewInner(dim), Completed)
    /\ InAddBody = {} => Len(data) = Len(ids) * dim

\* Two threads called add concurrently; the store holds the row of the
\* higher-numbered thread first, as it was granted write access first.
C12_Witness ==
    /\ Len(ids) = 2
    /\ Len(data) = 2 * dim
    /\ Owner(ids[1]) > Owner(ids[2])
    /\ Row(Store, 0) # Row(Store, 1)
    /\ \E t \in Threads : pc[t] = "unlock" /\ op[t].name = "add" /\ op[t].id = ids[2]

\* The ids of the rows that thread t added, in row order.
RowsOf(t) == SelectSeq(ids, LAMBDA id : Owner(id) = t)

\* The number of adds of thread t that have returned or pushed their id.
Finished(t) == issued[t] - (IF t \in Adding THEN 1 ELSE 0)

\* C13: the rows a thread added stand in the store in the order the thread
\* called add, one for each add that has ended, so a row is never present
\* without the rows its thread added before; len and save, once their body
\* has run, have observed all of them.
C13_ProgramOrder ==
    /\ \A t \in Threads :
        RowsOf(t) = [k \in 1..Finished(t) |-> TaggedId(t, k - 1)]
    /\ \A u \in HoldingObserver :
        pc[u] = "unlock" =>
            /\ op[u].name = "len" => ret[u] = Some(Len(ids))
            /\ op[u].name = "save" => ret[u] = Some(Serialize(Store))

\* One thread has added two rows and then called len, which has counted both.
C13_Witness ==
    \E t \in Threads :
        /\ Len(RowsOf(t)) = 2
        /\ issued[t] = 2
        /\ op[t].name = "len"
        /\ pc[t] = "unlock"
        /\ ret[t] = Some(2)


\* C14: an add whose vector length differs from dim, and a search,
\* search_parallel or search_naive whose query length differs from dim,
\* panics, returns no result and leaves dim, data and ids as they were.
C14_MismatchAborts ==
    [][/\ (call' = "add" /\ call = "idle" /\ Len(arg'.vector) # dim) =>
            (result' = Panicked /\ UNCHANGED <<dim, data, ids>>)
       /\ (call' \in Searches /\ call = "idle" /\ Len(query') # dim) =>
            (result' = Panicked /\ UNCHANGED <<dim, data, ids>>)]_vars

\* search_parallel on the empty store with a query of the wrong length has
\* panicked.
C14_Witness ==
    /\ call = "search_parallel"
    /\ Len(ids) = 0
    /\ Len(query) # dim
    /\ result = Panicked

\* C15: an add of a vector of length dim whose norm is at most 1e-10 does
\* not fail: it appends the components unchanged as a new row, and the id.
C15_ZeroVectorAddSucceeds ==
    (call = "add" /\ Len(arg.vector) = dim /\ ~FGt(l2_norm(arg.vector), Epsilon)) =>
        /\ result # Panicked
        /\ Len(ids) = adds
        /\ Len(ids) >= 1
        /\ ids[Len(ids)] = arg.id
        /\ Row(Store, Len(ids) - 1) = arg.vector

\* C16: new(0, capacity) aborts and produces no store, a store that
\* new(d, capacity) produced has dimension d, dim() returns the store's dim,
\* and no step changes the dim of a store.
C16_DimPositiveImmutable ==
    /\ [](call = "new" =>
            /\ arg.dim = U64(0) => ~loaded.ok
            /\ loaded.ok => loaded.inner.dim = arg.dim)
    /\ [](call = "dim" => result = Some(dim))
    /\ [][dim' = dim]_vars

\* new(0, capacity) has aborted beside a store that holds a row.
C16_Witness ==
    /\ call = "new"
    /\ arg.dim = U64(0)
    /\ loaded = Aborted
    /\ Len(ids) >= 1

\* C17: every step keeps the ids and the data values already stored, in the
\* same positions; rows are never removed or moved.
C17_AppendOnly ==
    [][/\ Len(ids') >= Len(ids)
       /\ Len(data') >= Len(data)
       /\ SubSeq(ids', 1, Len(ids)) = ids
       /\ SubSeq(data', 1, Len(data)) = data]_vars

\* A second row with another id and other components has been appended.
C17_Witness ==
    /\ call = "add"
    /\ result # Panicked
    /\ Len(ids) = 2
    /\ ids[1] # ids[2]
    /\ Row(Store, 0) # Row(Store, 1)

\* C18: search, search_parallel, search_naive, save, len, is_empty, dim and
\* load leave dim, data and ids unchanged, and is_empty() holds exactly when
\* len() = 0.
C18_ObserversPure ==
    /\ [][call' \in Observers => UNCHANGED <<dim, data, ids>>]_vars
    /\ [](call = "is_empty" => result = Some(Len(ids) = 0))
    /\ [](call = "len" => result = Some(Len(ids)))

\* is_empty() has answered true on the empty store.
C18_Witness ==
    /\ call = "is_empty"
    /\ Len(ids) = 0
    /\ result = Some(TRUE)

\* C19: search with threshold +infinity returns None; search with threshold
\* -infinity on a non-empty store returns the id of the earliest row
\* attaining the maximal score.
C19_ThresholdSaturation ==
    Returned("search") =>
        /\ threshold = PosInf => result = None
        /\ (threshold = NegInf /\ Len(ids) > 0) =>
            /\ result # None
            /\ result[1][1] = ids[Min(RowsMax(Scores))]

\* C20: a thread that has called add is in the end granted write access and
\* completes its row, whatever searches the other threads keep making and
\* however their read guards overlap.
C20_WriterNotStarved ==
    \A t \in StreamThreads :
        (op[t].name = "add" /\ pc[t] = "lock")
            ~> (op[t].name = "add" /\ pc[t] = "unlock")

\* The add waits for write access while the searches of two other threads
\* overlap: the writer bit is set, both hold their read guard, and a row
\* stored earlier shows that the searches went on around an add before.
C20_Witness ==
    \E u, v \in StreamThreads :
        /\ u # v
        /\ op[Adder].name = "add"
        /\ pc[Adder] = "drain"
        /\ op[u].name \in Searches
        /\ op[v].name \in Searches
        /\ pc[u] = "held"
        /\ pc[v] = "held"
        /\ readers = 2
        /\ writer_bit
        /\ Len(ids) = 1

\* |x - y| in f32.
AbsDiff(x, y) ==
    LET d == FAdd(x, F32(1 - Sgn(y), Exp(y), Frac(y)))
    IN  F32(0, Exp(d), Frac(d))

\* The literal 1e-5 as an f32 (0x3727c5ac).
Tolerance == F32(0, 110, 2606508)
NearOne(x) == FLe(AbsDiff(x, FOne), Tolerance)

\* The inputs add rescales: those whose computed norm is above 1e-10.
Normalisable(v) == FGt(l2_norm(v), Epsilon)

\* C21: every row stored by add has L2 norm within 1e-5 of 1 unless its
\* input's norm was at most 1e-10, and a search with a vector that was
\* added returns that row's id with a score within 1e-5 of 1.
C21_RowsUnitNorm ==
    /\ \A i \in 1..Len(ids) :
        Normalisable(acquired[i].vector) => NearOne(l2_norm(Row(Store, i - 1)))
    /\ Returned("search") =>
        \A i \in 1..Len(ids) :
            (acquired[i].vector = query /\ Normalisable(query)) =>
                /\ result # None
                /\ result[1][1] = ids[i]
                /\ NearOne(result[1][2])


\* C22: after any sequence of store_vector, update_vector, delete_document
\* and save calls ending with save, a Storage created with the same path and
\* then loaded holds exactly the documents the saved Storage held at that
\* save, also when the file already held a longer earlier save.
C22_StorageRoundTrip ==
    (call = "storage_load" /\ saved # None) =>
        /\ result # Panicked
        /\ docs = saved[1]


\* C23: on every store built by new, add and load, and for every query of
\* length dim, the unchecked reads of search and search_parallel are in
\* bounds: each row slice data[i*dim .. (i+1)*dim], i < |ids|, and the
\* indices of the unrolled loop in both operands, which both have length dim.
C23_UncheckedReadsInBounds ==
    /\ (call = "search" /\ Len(query) = dim) => RowSlicesInBounds(Store)
    /\ (call = "search_parallel" /\ Len(query) = dim /\ Len(ids) > 0 /\ dim > 0) =>
        \A i \in 1..Len(ParChunks(Store)) :
            /\ Len(ParChunks(Store)[i]) = dim
            /\ UnrolledInBounds(query, ParChunks(Store)[i])


\* The plain sum of the products a[i] * b[i], in exact arithmetic.
RECURSIVE PlainSum(_, _, _)
PlainSum(a, b, i) == IF i > Len(a) THEN 0 ELSE a[i] * b[i] + PlainSum(a, b, i + 1)

\* C24: for operands of any equal length L, dot_product_unrolled adds the
\* product of every index 0 .. L-1 exactly once, 8 * (L div 8) of them in the
\* unrolled loop and the last L mod 8 in the remainder loop, so that in
\* exact arithmetic its result is the plain sum of the products.
C24_EveryIndexOnce ==
    call = "dot_product_unrolled" =>
        /\ UnrolledIndices(query) \cup RemainderIndices(query) = 0..(Len(query) - 1)
        /\ UnrolledIndices(query) \cap RemainderIndices(query) = {}
        /\ Cardinality(UnrolledIndices(query)) = 8 * (Len(query) \div 8)
        /\ Cardinality(RemainderIndices(query)) = Len(query) % 8
        /\ result = Some(FromNat(PlainSum(arg.a, arg.b, 1)))

\* The kernel returned 15 for operands of length 9 whose only non-zero
\* components are a 3 and a 5 at the last index, the remainder's.
C24_Witness ==
    /\ call = "dot_product_unrolled"
    /\ Len(query) = 9
    /\ arg.a[9] = 3
    /\ arg.b[9] = 5
    /\ result = Some(F32(0, 130, 7340032))


\* The threads whose save has written its image and still holds its guard.
Saving == {t \in Threads : op[t].name = "save" /\ pc[t] = "unlock"}

\* The stores after each prefix of the adds in the order of their grants.
SerialPrefixes ==
    {Serial(NewInner(dim), SubSeq(acquired, 1, k)) : k \in 0..Len(acquired)}

\* C25: a save running concurrently with adds writes an image of the store
\* as it was between two complete adds: the image's data length is its ids
\* length times dim, and loading it yields the store after some prefix of
\* the adds in their serial order.
C25_SaveWritesSnapshot ==
    \A t \in Saving :
        /\ Deserialize(ret[t][1]).ok
        /\ Len(Deserialize(ret[t][1]).inner.data)
            = Len(Deserialize(ret[t][1]).inner.ids) * Dim(Deserialize(ret[t][1]).inner)
        /\ Deserialize(ret[t][1]).inner \in SerialPrefixes

\* A save wrote the image of the one-row store while another thread's add
\* holds the writer bit and waits for the save's guard to be dropped.
C25_Witness ==
    \E t \in Saving, u \in Threads :
        /\ op[u].name = "add"
        /\ pc[u] = "drain"
        /\ Deserialize(ret[t][1]).ok
        /\ Len(Deserialize(ret[t][1]).inner.ids) = 1
        /\ Len(acquired) = 1


\* C26: every call of add, search, search_parallel, search_naive, save, len,
\* is_empty or dim on a shared store returns or aborts in the end: each call
\* takes the lock once, and a call that panics on a dimension mismatch under
\* its guard releases it, so the calls after it proceed.
C26_EveryCallEnds ==
    \A t \in Threads : (pc[t] # "idle") ~> (pc[t] = "idle")

\* A search of the wrong dimension panicked under its read guard while
\* another thread's add holds the writer bit and waits for that guard.
C26_Witness ==
    \E t, u \in Threads :
        /\ pc[t] = "unlock"
        /\ op[t].name \in Searches
        /\ Mismatched(op[t])
        /\ op[u].name = "add"
        /\ pc[u] = "drain"
        /\ readers = 1


====
